---- MODULE Spec2Model ----
(***************************************************************************)
(* WireViz: the connection resolution of wireviz.parse, the pin validation *)
(* of Harness.connect and the bill of materials of Harness.bom, as state   *)
(* machines: Spec (parse), ResolveSpec (resolve_designator), ConnectSpec   *)
(* (Harness.connect) and BomSpec (the BOM of a harness).                   *)
(*                                                                         *)
(* Representation of Python values                                         *)
(*  - a designator or template name is a TLA+ string; None is the value    *)
(*    None below;                                                          *)
(*  - a token of a connection set (a Python str that may hold dots) is the *)
(*    sequence of its dot-free segments: "X1" is <<"X1">>, "X1." is        *)
(*    <<"X1", "">>, "X1.X2" is <<"X1", "X2">>.  A str and its list of      *)
(*    dot-free segments determine each other;                              *)
(*  - a pin is tagged with its Python type, because 1 and "1" are          *)
(*    different pins: PyInt(1), PyStr("1"), PyNone;                        *)
(*  - a dict is a function on its set of keys; where the order of its keys *)
(*    matters (Harness.bom) the variable inserted holds it;                *)
(*  - a quantity of the BOM is a whole number of ten-thousandths.          *)
(***************************************************************************)
EXTENDS Integers, Sequences, FiniteSets, TLC

VARIABLES
    pc,                         \* position of parse
    err,                        \* the exception that ended parse, "" when none
    budget,                     \* entries the rest of the document may still hold
    raw_set,                    \* the connection set as written in the document
    connection_set,             \* the connection set as parse rewrites it
    connectioncount,            \* parse's connectioncount once it is a number
    designators_and_templates,  \* designator -> template
    autogenerated_designators,  \* template -> last number given out
    connectors,                 \* harness.connectors: name -> Connector
    cables,                     \* harness.cables: name -> Cable
    index_connection,           \* loop variables of the connect loop
    index_item,
    before,                     \* harness and number of connect calls when the connection set began
    emitted,                    \* the calls of harness.connect made so far
    calls,                      \* the calls of resolve_designator made so far
    _bom,                       \* harness._bom, the cache of bom()
    additional_bom_items,       \* harness.additional_bom_items
    inserted,                   \* BomSpec: the keys of connectors and of cables in insertion order
    aggregations,               \* BomSpec: the times bom() ran past its cache test
    returned,                   \* BomSpec: what each call of bom() returned
    result                      \* BomSpec: what the last call on the harness returned

vars == <<pc, err, budget, raw_set, connection_set, connectioncount,
          designators_and_templates, autogenerated_designators, connectors,
          cables, index_connection, index_item, before, emitted, calls,
          _bom, additional_bom_items, inserted, aggregations, returned, result>>
bom_vars == <<_bom, additional_bom_items, inserted, aggregations, returned, result>>

\* ------------------------------------------------------------------ bounds
MaxEntries == 3         \* entries in all connection sets of one document
MaxListLen == 2         \* designators in one list entry
MaxResolutions == 4     \* calls of resolve_designator in ResolveSpec
MaxConnects == 2        \* calls of Harness.connect in ConnectSpec
MaxAdds == 3            \* calls of add_connector, add_cable, add_bom_item in BomSpec
MaxCalls == 2           \* calls of bom, get_bom_index, bom_list in BomSpec

\* ------------------------------------------------------------ Python values
None == "None"
PyNone == [k |-> "none", v |-> 0]
PyInt(n) == [k |-> "int", v |-> n]
PyStr(s) == [k |-> "str", v |-> s]

EmptyDict == [x \in {} |-> x]
Put(d, key, val) == [x \in (DOMAIN d) \cup {key} |-> IF x = key THEN val ELSE d[x]]
Get(d, key, default) == IF key \in DOMAIN d THEN d[key] ELSE default

\* x in list
In(x, list) == \E i \in 1..Len(list) : list[i] = x
\* list.index(x) + 1, for x in list
Index(list, x) == CHOOSE i \in 1..Len(list) : list[i] = x /\ \A j \in 1..(i-1) : list[j] # x
\* list.count(x)
Count(list, x) == Cardinality({i \in 1..Len(list) : list[i] = x})

RECURSIVE Flatten(_)
Flatten(ss) == IF ss = <<>> THEN <<>> ELSE Head(ss) \o Flatten(Tail(ss))

\* ------------------------------------------------------------------ expand
\* A pin-range value is a scalar, a list of scalars, or a shorthand string,
\* held as its comma-separated tokens: a single integer, a range a-b, or a
\* malformed token.
Scalar(p) == [scalar |-> p]
ScalarList(ps) == [list |-> ps]
Shorthand(toks) == [shorthand |-> toks]
Single(a) == [kind |-> "single", a |-> a, b |-> a]
Range(a, b) == [kind |-> "range", a |-> a, b |-> b]
Malformed == [kind |-> "bad", a |-> 0, b |-> 0]

ExpandToken(t) ==
    IF t.kind = "single" THEN <<PyInt(t.a)>>
    ELSE IF t.a <= t.b THEN [i \in 1..(t.b - t.a + 1) |-> PyInt(t.a + i - 1)]
    ELSE [i \in 1..(t.a - t.b + 1) |-> PyInt(t.a - i + 1)]

\* [err, pins]: the expanded sequence, or FormatError on a malformed token
expand(value) ==
    IF "scalar" \in DOMAIN value THEN [err |-> "", pins |-> <<value.scalar>>]
    ELSE IF "list" \in DOMAIN value THEN [err |-> "", pins |-> value.list]
    ELSE LET toks == value.shorthand
         IN  IF \E i \in 1..Len(toks) : toks[i].kind = "bad"
             THEN [err |-> "FormatError", pins |-> <<>>]
             ELSE [err |-> "", pins |-> Flatten([i \in 1..Len(toks) |-> ExpandToken(toks[i])])]

\* ------------------------------------------------------ resolve_designator
\* f'_{template}_{n}'
AutoDesignator(template, n) == "_" \o template \o "_" \o ToString(n)

Resolved(template, designator, dat, agd) ==
    [err |-> "", template |-> template, designator |-> designator, dat |-> dat, agd |-> agd]
Raised(e, dat, agd) ==
    [err |-> e, template |-> None, designator |-> None, dat |-> dat, agd |-> agd]

\* resolve_designator with the contradiction check dropped: a bound designator
\* is silently bound again
resolve_designator_rebinds(inp, dat, agd) ==
    IF Len(inp) > 1
    THEN IF Len(inp) # 2
         THEN Raised("ValueError", dat, agd)
         ELSE LET template == inp[1]
                  agd1 == IF inp[2] = ""
                          THEN Put(agd, template, Get(agd, template, 0) + 1)
                          ELSE agd
                  designator == IF inp[2] = ""
                                THEN AutoDesignator(template, agd1[template])
                                ELSE inp[2]
              IN  Resolved(template, designator, Put(dat, designator, template), agd1)
    ELSE Resolved(inp[1], inp[1], Put(dat, inp[1], Get(dat, inp[1], inp[1])), agd)

\* One call of resolve_designator(inp) with the registry dat and the counters
\* agd: what it returns or raises, and the registry and counters it leaves.
resolve_designator(inp, dat, agd) ==
    IF Len(inp) > 1
    THEN IF Len(inp) # 2
         THEN Raised("ValueError", dat, agd)    \* template, designator = inp.split('.')
         ELSE LET template == inp[1]
                  agd1 == IF inp[2] = ""
                          THEN Put(agd, template, Get(agd, template, 0) + 1)
                          ELSE agd
                  designator == IF inp[2] = ""
                                THEN AutoDesignator(template, agd1[template])
                                ELSE inp[2]
              IN  IF designator \in DOMAIN dat
                  THEN IF dat[designator] # template
                       THEN Raised("DesignatorConflict", dat, agd1)
                       ELSE Resolved(template, designator, dat, agd1)
                  ELSE Resolved(template, designator, Put(dat, designator, template), agd1)
    ELSE LET template == inp[1]
             designator == inp[1]
         IN  IF designator \in DOMAIN dat
             THEN Resolved(template, designator, dat, agd)
             ELSE Resolved(template, designator, Put(dat, designator, template), agd)

\* The record of one call, kept in calls.
Call(inp, dat, agd, r) ==
    [inp |-> inp, dat |-> dat, agd |-> agd, err |-> r.err,
     template |-> r.template, designator |-> r.designator, dat_after |-> r.dat]

\* --------------------------------------------------------- Harness.connect
Connector(name, attribs) ==
    [name |-> name, pins |-> attribs.pins, pinlabels |-> attribs.pinlabels]
Cable(name, attribs) ==
    [name |-> name, wirecount |-> attribs.wirecount, connections |-> <<>>]
Connection(from_name, from_pin, via_port, to_name, to_pin) ==
    [from_name |-> from_name, from_pin |-> from_pin, via_port |-> via_port,
     to_name |-> to_name, to_pin |-> to_pin]

\* Cable.connect: one more connection record in the cable
CableConnect(cable, from_name, from_pin, via_pin, to_name, to_pin) ==
    [cable EXCEPT !.connections =
        Append(@, Connection(from_name, from_pin, via_pin, to_name, to_pin))]

\* CheckSide with every label mapped to the first pin of the connector
CheckSide_first_pin(conns, name, pin, from_name, to_name, st) ==
    IF st.err # "" \/ name = None \/ name \notin DOMAIN conns THEN st
    ELSE LET pins == conns[name].pins
             pinlabels == conns[name].pinlabels
         IN  IF /\ In(pin, pins) /\ In(pin, pinlabels)
                /\ Index(pins, pin) # Index(pinlabels, pin)
             THEN [st EXCEPT !.err = "AmbiguousPinReference"]
             ELSE IF In(pin, pinlabels)
             THEN IF Count(pinlabels, pin) > 1
                  THEN [st EXCEPT !.err = "DuplicatePinLabel"]
                  ELSE [st EXCEPT
                          !.from_pin = IF name = from_name THEN pins[1] ELSE @,
                          !.to_pin = IF name = to_name THEN pins[1] ELSE @]
             ELSE IF ~In(pin, pins)
             THEN [st EXCEPT !.err = "UnknownPin"]
             ELSE st

\* CheckSide without the test for a label that occurs more than once
CheckSide_no_duplicate_check(conns, name, pin, from_name, to_name, st) ==
    IF st.err # "" \/ name = None \/ name \notin DOMAIN conns THEN st
    ELSE LET pins == conns[name].pins
             pinlabels == conns[name].pinlabels
         IN  IF /\ In(pin, pins) /\ In(pin, pinlabels)
                /\ Index(pins, pin) # Index(pinlabels, pin)
             THEN [st EXCEPT !.err = "AmbiguousPinReference"]
             ELSE IF In(pin, pinlabels)
             THEN LET mapped == pins[Index(pinlabels, pin)]
                  IN  [st EXCEPT
                         !.from_pin = IF name = from_name THEN mapped ELSE @,
                         !.to_pin = IF name = to_name THEN mapped ELSE @]
             ELSE IF ~In(pin, pins)
             THEN [st EXCEPT !.err = "UnknownPin"]
             ELSE st

\* CheckSide without the final test that the pin is one of the connector's
CheckSide_no_unknown_check(conns, name, pin, from_name, to_name, st) ==
    IF st.err # "" \/ name = None \/ name \notin DOMAIN conns THEN st
    ELSE LET pins == conns[name].pins
             pinlabels == conns[name].pinlabels
         IN  IF /\ In(pin, pins) /\ In(pin, pinlabels)
                /\ Index(pins, pin) # Index(pinlabels, pin)
             THEN [st EXCEPT !.err = "AmbiguousPinReference"]
             ELSE IF In(pin, pinlabels)
             THEN IF Count(pinlabels, pin) > 1
                  THEN [st EXCEPT !.err = "DuplicatePinLabel"]
                  ELSE LET mapped == pins[Index(pinlabels, pin)]
                       IN  [st EXCEPT
                              !.from_pin = IF name = from_name THEN mapped ELSE @,
                              !.to_pin = IF name = to_name THEN mapped ELSE @]
             ELSE st

\* CheckSide without the test for a token that is a pin and another pin's label
CheckSide_no_ambiguity_check(conns, name, pin, from_name, to_name, st) ==
    IF st.err # "" \/ name = None \/ name \notin DOMAIN conns THEN st
    ELSE LET pins == conns[name].pins
             pinlabels == conns[name].pinlabels
         IN  IF In(pin, pinlabels)
             THEN IF Count(pinlabels, pin) > 1
                  THEN [st EXCEPT !.err = "DuplicatePinLabel"]
                  ELSE LET mapped == pins[Index(pinlabels, pin)]
                       IN  [st EXCEPT
                              !.from_pin = IF name = from_name THEN mapped ELSE @,
                              !.to_pin = IF name = to_name THEN mapped ELSE @]
             ELSE IF ~In(pin, pins)
             THEN [st EXCEPT !.err = "UnknownPin"]
             ELSE st

\* One pass of the loop of Harness.connect, for the side (name, pin); st holds
\* the exception raised so far and the local variables from_pin and to_pin.
CheckSide(conns, name, pin, from_name, to_name, st) ==
    IF st.err # "" \/ name = None \/ name \notin DOMAIN conns THEN st
    ELSE LET connector == conns[name]
             pins == connector.pins
             pinlabels == connector.pinlabels
         IN  IF /\ In(pin, pins) /\ In(pin, pinlabels)
                /\ Index(pins, pin) # Index(pinlabels, pin)
             THEN [st EXCEPT !.err = "AmbiguousPinReference"]
             ELSE IF In(pin, pinlabels)
             THEN IF Count(pinlabels, pin) > 1
                  THEN [st EXCEPT !.err = "DuplicatePinLabel"]
                  ELSE IF Index(pinlabels, pin) > Len(pins)
                  THEN [st EXCEPT !.err = "IndexError"]
                  ELSE LET mapped == pins[Index(pinlabels, pin)]
                       IN  [st EXCEPT
                              !.from_pin = IF name = from_name THEN mapped ELSE @,
                              !.to_pin = IF name = to_name THEN mapped ELSE @]
             ELSE IF ~In(pin, pins)
             THEN [st EXCEPT !.err = "UnknownPin"]
             ELSE st

\* Harness.connect: [err, cables], the exception raised ("" when none) and the
\* cables it leaves.
HarnessConnect(conns, cbls, from_name, from_pin, via_name, via_pin, to_name, to_pin) ==
    LET st0 == [err |-> "", from_pin |-> from_pin, to_pin |-> to_pin]
        st1 == CheckSide(conns, from_name, from_pin, from_name, to_name, st0)
        st2 == CheckSide(conns, to_name, to_pin, from_name, to_name, st1)
    IN  IF st2.err # "" THEN [err |-> st2.err, cables |-> cbls]
        ELSE IF via_name \notin DOMAIN cbls THEN [err |-> "KeyError", cables |-> cbls]
        ELSE [err |-> "",
              cables |-> [cbls EXCEPT ![via_name] =
                  CableConnect(@, from_name, st2.from_pin, via_pin, to_name, st2.to_pin)]]

\* Harness.__init__, the part bom() works on: an empty cache and no
\* additional items; nothing asked of the harness yet
NoBom ==
    /\ _bom = <<>>
    /\ additional_bom_items = <<>>
    /\ inserted = [connectors |-> <<>>, cables |-> <<>>]
    /\ aggregations = 0
    /\ returned = <<>>
    /\ result = [none |-> 0]

\* ------------------------------------------------------------ the document
\* connectors: X1 with pins [1, 2]; cables: W1 with wirecount 2
template_connector_names == <<"X1">>
template_connectors == [t \in {"X1"} |-> [pins |-> <<PyInt(1), PyInt(2)>>, pinlabels |-> <<>>]]
template_cable_names == <<"W1">>
template_cables == [t \in {"W1"} |-> [wirecount |-> 2]]

StrEntry(tok) == [kind |-> "str", tok |-> tok]
ListEntry(toks) == [kind |-> "list", items |-> toks]
DictEntry(tok, value) == [kind |-> "dict", key |-> tok, value |-> value]

\* the entries a connection set is drawn from
StrTokens == {<<"X1">>, <<"X2">>, <<"W1">>, <<"X1", "X2">>}
ListTokens == {<<"X1", "">>}
DictEntries ==
    { DictEntry(<<"W1">>, Shorthand(<<Range(1, 2)>>)),                 \* W1: 1-2
      DictEntry(<<"W1">>, Scalar(PyInt(3))),                           \* W1: 3
      DictEntry(<<"W1", "">>, Shorthand(<<Range(2, 1)>>)),             \* W1.: 2-1
      DictEntry(<<"X1", "X2">>, ScalarList(<<PyInt(1), PyInt(3)>>)) }  \* X1.X2: [1, 3]
Entries ==
    {StrEntry(t) : t \in StrTokens}
    \cup {ListEntry(l) : l \in UNION {[1..n -> ListTokens] : n \in 0..MaxListLen}}
    \cup DictEntries
\* the connection sets of at most n entries
ConnectionSets(n) == UNION {[1..m -> Entries] : m \in 0..n}

\* -------------------------------------------------------------------- parse
Init ==
    /\ pc = "loop"
    /\ err = ""
    /\ budget = MaxEntries
    /\ raw_set = <<>>
    /\ connection_set = <<>>
    /\ connectioncount = 0
    /\ designators_and_templates = EmptyDict
    /\ autogenerated_designators = EmptyDict
    /\ connectors = EmptyDict
    /\ cables = EmptyDict
    /\ index_connection = 1
    /\ index_item = 1
    /\ before = [connectors |-> EmptyDict, cables |-> EmptyDict, emitted |-> 0]
    /\ emitted = <<>>
    /\ calls = <<>>
    /\ NoBom

\* for connection_set in connection_sets: the next connection set of the document
NextConnectionSet ==
    /\ pc = "loop"
    /\ \E cs \in ConnectionSets(budget) :
          /\ raw_set' = cs
          /\ connection_set' = cs
          /\ budget' = budget - Len(cs)
    /\ before' = [connectors |-> connectors, cables |-> cables, emitted |-> Len(emitted)]
    /\ pc' = "count"
    /\ UNCHANGED <<err, connectioncount, designators_and_templates,
                   autogenerated_designators, connectors, cables,
                   index_connection, index_item, emitted, calls>>
    /\ UNCHANGED bom_vars

\* what one entry reveals of the number of parallel connections
EntryCount(entry) ==
    IF entry.kind = "list" THEN PyInt(Len(entry.items))
    ELSE IF entry.kind = "dict" THEN PyInt(Len(expand(entry.value).pins))
    ELSE PyNone
\* bool(x) for x a number or None
Truthy(x) == x.k = "int" /\ x.v # 0
\* list(filter(None, counts))
RECURSIVE FilterNone(_)
FilterNone(counts) ==
    IF counts = <<>> THEN <<>>
    ELSE IF Truthy(Head(counts)) THEN <<Head(counts)>> \o FilterNone(Tail(counts))
    ELSE FilterNone(Tail(counts))
Repeat(x, n) == [i \in 1..n |-> x]

Fail(e) == pc' = "failed" /\ err' = e

\* figure out the number of parallel connections, check that all entries
\* agree, expand string entries to lists of that length
CountConnections ==
    /\ pc = "count"
    /\ LET counts == [i \in 1..Len(connection_set) |-> EntryCount(connection_set[i])]
           kept == FilterNone(counts)
       IN  IF \E i \in 1..Len(connection_set) :
                 /\ connection_set[i].kind = "dict"
                 /\ expand(connection_set[i].value).err # ""
           THEN Fail("FormatError") /\ UNCHANGED <<connection_set, connectioncount>>
           ELSE IF kept = <<>>
           THEN Fail("AmbiguousConnectionCount") /\ UNCHANGED <<connection_set, connectioncount>>
           ELSE IF Cardinality({kept[i] : i \in 1..Len(kept)}) > 1
           THEN Fail("InconsistentConnectionCount") /\ UNCHANGED <<connection_set, connectioncount>>
           ELSE /\ connectioncount' = kept[1].v
                /\ connection_set' =
                      [i \in 1..Len(connection_set) |->
                          IF connection_set[i].kind = "str"
                          THEN ListEntry(Repeat(connection_set[i].tok, kept[1].v))
                          ELSE connection_set[i]]
                /\ pc' = "resolve"
                /\ err' = err
    /\ UNCHANGED <<budget, raw_set, designators_and_templates, autogenerated_designators,
                   connectors, cables, index_connection, index_item, before, emitted, calls>>
    /\ UNCHANGED bom_vars

\* the tokens of a connection set in the order parse resolves them
TokensOf(cs) ==
    Flatten([i \in 1..Len(cs) |->
                IF cs[i].kind = "list" THEN cs[i].items ELSE <<cs[i].key>>])
\* where the designators of entry i start in the resolved sequence
RECURSIVE Offset(_, _)
Offset(cs, i) ==
    IF i = 1 THEN 0
    ELSE Offset(cs, i - 1) + (IF cs[i-1].kind = "list" THEN Len(cs[i-1].items) ELSE 1)

\* resolve_designator on each token in turn, until one raises; st holds the
\* exception, the registry, the counters, the designators returned and calls
RECURSIVE ResolveAll(_, _)
ResolveAll(toks, st) ==
    IF toks = <<>> \/ st.err # "" THEN st
    ELSE LET r == resolve_designator(Head(toks), st.dat, st.agd)
         IN  ResolveAll(Tail(toks),
                 [err |-> r.err, dat |-> r.dat, agd |-> r.agd,
                  out |-> IF r.err = "" THEN Append(st.out, r.designator) ELSE st.out,
                  calls |-> Append(st.calls, Call(Head(toks), st.dat, st.agd, r))])

\* resolve all designators
ResolveDesignators ==
    /\ pc = "resolve"
    /\ LET st == ResolveAll(TokensOf(connection_set),
                     [err |-> "", dat |-> designators_and_templates,
                      agd |-> autogenerated_designators, out |-> <<>>, calls |-> calls])
       IN  /\ designators_and_templates' = st.dat
           /\ autogenerated_designators' = st.agd
           /\ calls' = st.calls
           /\ IF st.err # ""
              THEN Fail(st.err) /\ UNCHANGED connection_set
              ELSE /\ connection_set' =
                        [i \in 1..Len(connection_set) |->
                            IF connection_set[i].kind = "list"
                            THEN ListEntry([j \in 1..Len(connection_set[i].items) |->
                                               st.out[Offset(connection_set, i) + j]])
                            ELSE DictEntry(st.out[Offset(connection_set, i) + 1],
                                           connection_set[i].value)]
                   /\ pc' = "expand"
                   /\ err' = err
    /\ UNCHANGED <<budget, raw_set, connectioncount, connectors, cables,
                   index_connection, index_item, before, emitted>>
    /\ UNCHANGED bom_vars

\* {designator: pin}
Item(designator, pin) == [designator |-> designator, pin |-> pin]

\* expand all pin lists
ExpandPinLists ==
    /\ pc = "expand"
    /\ connection_set' =
          [i \in 1..Len(connection_set) |->
              IF connection_set[i].kind = "list"
              THEN [j \in 1..Len(connection_set[i].items) |->
                       Item(connection_set[i].items[j], PyInt(1))]
              ELSE LET pinlist == expand(connection_set[i].value).pins
                   IN  [j \in 1..Len(pinlist) |-> Item(connection_set[i].key, pinlist[j])]]
    /\ pc' = "generate"
    /\ UNCHANGED <<err, budget, raw_set, connectioncount, designators_and_templates,
                   autogenerated_designators, connectors, cables, index_connection,
                   index_item, before, emitted, calls>>
    /\ UNCHANGED bom_vars

\* the body of the generate-items loop for each item in turn; h is the harness
RECURSIVE Generate(_, _, _)
Generate(items, dat, h) ==
    IF items = <<>> THEN h
    ELSE LET designator == Head(items).designator
             template == dat[designator]
         IN  Generate(Tail(items), dat,
                 IF designator \in DOMAIN h.connectors THEN h
                 ELSE IF In(template, template_connector_names)
                 THEN [h EXCEPT !.connectors =
                          Put(@, designator, Connector(designator, template_connectors[template]))]
                 ELSE IF designator \in DOMAIN h.cables THEN h
                 ELSE IF In(template, template_cable_names)
                 THEN [h EXCEPT !.cables =
                          Put(@, designator, Cable(designator, template_cables[template]))]
                 ELSE h)

\* generate items
GenerateItems ==
    /\ pc = "generate"
    /\ LET h == Generate(Flatten(connection_set), designators_and_templates,
                         [connectors |-> connectors, cables |-> cables])
       IN  connectors' = h.connectors /\ cables' = h.cables
    /\ pc' = "transpose"
    /\ UNCHANGED <<err, budget, raw_set, connection_set, connectioncount,
                   designators_and_templates, autogenerated_designators,
                   index_connection, index_item, before, emitted, calls>>
    /\ UNCHANGED bom_vars

\* the length of the shortest of the lists, 0 when there is none
MinLen(lists) ==
    IF lists = <<>> THEN 0
    ELSE CHOOSE n \in {Len(lists[i]) : i \in 1..Len(lists)} :
             \A i \in 1..Len(lists) : n <= Len(lists[i])
\* the transpose with its last chain lost
Zip_drops_last(lists) ==
    [i \in 1..(MinLen(lists) - 1) |-> [j \in 1..Len(lists) |-> lists[j][i]]]
\* list(map(list, zip(*lists)))
Zip(lists) == [i \in 1..MinLen(lists) |-> [j \in 1..Len(lists) |-> lists[j][i]]]

\* transpose list
Transpose ==
    /\ pc = "transpose"
    /\ connection_set' = Zip(connection_set)
    /\ index_connection' = 1
    /\ index_item' = 1
    /\ pc' = "connect"
    /\ UNCHANGED <<err, budget, raw_set, connectioncount, designators_and_templates,
                   autogenerated_designators, connectors, cables, before, emitted, calls>>
    /\ UNCHANGED bom_vars

\* the left neighbour taken one place too far right
FromSide_off_by_one(connection, ii) ==
    IF ii = 1 THEN Item(None, PyNone) ELSE connection[ii]
\* the left and right neighbour of item index_item of the chain connection
FromSide(connection, ii) ==
    IF ii = 1 THEN Item(None, PyNone) ELSE connection[ii - 1]
ToSide(connection, ii) ==
    IF ii = Len(connection) THEN Item(None, PyNone) ELSE connection[ii + 1]

ConnectCall(from_name, from_pin, via_name, via_pin, to_name, to_pin) ==
    [from_name |-> from_name, from_pin |-> from_pin, via_name |-> via_name,
     via_pin |-> via_pin, to_name |-> to_name, to_pin |-> to_pin]

\* the loop variables after item index_item of chain index_connection
Advance ==
    IF index_item < Len(connection_set[index_connection])
    THEN index_item' = index_item + 1 /\ index_connection' = index_connection
    ELSE index_item' = 1 /\ index_connection' = index_connection + 1

\* one pass of the inner connect loop, on an item that is a known cable
ConnectCableItem ==
    /\ pc = "connect"
    /\ index_connection <= Len(connection_set)
    /\ LET connection == connection_set[index_connection]
           item == connection[index_item]
           from == FromSide(connection, index_item)
           to == ToSide(connection, index_item)
           r == HarnessConnect(connectors, cables, from.designator, from.pin,
                               item.designator, item.pin, to.designator, to.pin)
       IN  /\ item.designator \in DOMAIN cables
           /\ emitted' = Append(emitted,
                  ConnectCall(from.designator, from.pin, item.designator, item.pin,
                              to.designator, to.pin))
           /\ IF r.err # ""
              THEN Fail(r.err) /\ UNCHANGED <<cables, index_connection, index_item>>
              ELSE cables' = r.cables /\ Advance /\ UNCHANGED <<pc, err>>
    /\ UNCHANGED <<budget, raw_set, connection_set, connectioncount,
                   designators_and_templates, autogenerated_designators, connectors,
                   before, calls>>
    /\ UNCHANGED bom_vars

\* one pass of the inner connect loop, on an item that is no cable
SkipItem ==
    /\ pc = "connect"
    /\ index_connection <= Len(connection_set)
    /\ connection_set[index_connection][index_item].designator \notin DOMAIN cables
    /\ Advance
    /\ UNCHANGED <<pc, err, budget, raw_set, connection_set, connectioncount,
                   designators_and_templates, autogenerated_designators, connectors,
                   cables, before, emitted, calls>>
    /\ UNCHANGED bom_vars

\* the connect loop is over: on to the next connection set
EndConnectionSet ==
    /\ pc = "connect"
    /\ index_connection > Len(connection_set)
    /\ pc' = "loop"
    /\ UNCHANGED <<err, budget, raw_set, connection_set, connectioncount,
                   designators_and_templates, autogenerated_designators, connectors,
                   cables, index_connection, index_item, before, emitted, calls>>
    /\ UNCHANGED bom_vars

\* no connection set is left: parse returns the harness
Finish ==
    /\ pc = "loop"
    /\ pc' = "done"
    /\ UNCHANGED <<err, budget, raw_set, connection_set, connectioncount,
                   designators_and_templates, autogenerated_designators, connectors,
                   cables, index_connection, index_item, before, emitted, calls>>
    /\ UNCHANGED bom_vars

Next ==
    \/ NextConnectionSet
    \/ CountConnections
    \/ ResolveDesignators
    \/ ExpandPinLists
    \/ GenerateItems
    \/ Transpose
    \/ ConnectCableItem
    \/ SkipItem
    \/ EndConnectionSet
    \/ Finish

Spec == Init /\ [][Next]_vars

\* ------------------------------------------- resolve_designator on its own
\* the tokens ResolveSpec resolves
Tokens ==
    { <<"X1">>, <<"X2">>, <<"X1", "">>, <<"W1", "">>, <<"X1", "X2">>, <<"W1", "X2">>,
      <<"X1", "_X1_1">>, <<"W1", "_X1_1">>, <<"X1", "X2", "A">> }

\* one call of resolve_designator, on any token, in the document so far
ResolveToken ==
    /\ pc = "loop"
    /\ Len(calls) < MaxResolutions
    /\ \E inp \in Tokens :
          LET r == resolve_designator(inp, designators_and_templates,
                                      autogenerated_designators)
          IN  /\ designators_and_templates' = r.dat
              /\ autogenerated_designators' = r.agd
              /\ calls' = Append(calls, Call(inp, designators_and_templates,
                                             autogenerated_designators, r))
              /\ IF r.err # "" THEN Fail(r.err) ELSE UNCHANGED <<pc, err>>
    /\ UNCHANGED <<budget, raw_set, connection_set, connectioncount, connectors,
                   cables, index_connection, index_item, before, emitted>>
    /\ UNCHANGED bom_vars

ResolveNext == ResolveToken

ResolveSpec == Init /\ [][ResolveNext]_vars

\* ---------------------------------------------- Harness.connect on its own
\* The harness ConnectSpec starts from, after add_connector and add_cable:
\*   X: pins [1, 2],               pinlabels ["A", "1"]
\*   Y: pins ["P", "Q", "R", "S"], pinlabels ["P", "R", "D", "D"]
\*   Z: pins ["P", "Q"],           pinlabels ["P", "P"]
\*   W: a cable of 2 wires
ConnectConnectors ==
    [n \in {"X", "Y", "Z"} |->
        IF n = "X"
        THEN Connector("X", [pins |-> <<PyInt(1), PyInt(2)>>,
                             pinlabels |-> <<PyStr("A"), PyStr("1")>>])
        ELSE IF n = "Y"
        THEN Connector("Y", [pins |-> <<PyStr("P"), PyStr("Q"), PyStr("R"), PyStr("S")>>,
                             pinlabels |-> <<PyStr("P"), PyStr("R"), PyStr("D"), PyStr("D")>>])
        ELSE Connector("Z", [pins |-> <<PyStr("P"), PyStr("Q")>>,
                             pinlabels |-> <<PyStr("P"), PyStr("P")>>])]
ConnectCables == [n \in {"W"} |-> Cable("W", [wirecount |-> 2])]

\* the (name, pin) a side of a connect is drawn from
Sides ==
    { <<None, PyNone>>,
      <<"X", PyInt(1)>>, <<"X", PyStr("1")>>, <<"X", PyStr("A")>>, <<"X", PyInt(3)>>,
      <<"Y", PyStr("P")>>, <<"Y", PyStr("R")>>, <<"Y", PyStr("D")>>,
      <<"Z", PyStr("P")>> }

ConnectInit ==
    /\ pc = "loop"
    /\ err = ""
    /\ budget = MaxEntries
    /\ raw_set = <<>>
    /\ connection_set = <<>>
    /\ connectioncount = 0
    /\ designators_and_templates = EmptyDict
    /\ autogenerated_designators = EmptyDict
    /\ connectors = ConnectConnectors
    /\ cables = ConnectCables
    /\ index_connection = 1
    /\ index_item = 1
    /\ before = [connectors |-> ConnectConnectors, cables |-> ConnectCables, emitted |-> 0]
    /\ emitted = <<>>
    /\ calls = <<>>
    /\ NoBom

\* one call harness.connect(from_name, from_pin, "W", 1, to_name, to_pin); err
\* is the exception it raised, before the harness it found
ConnectOp ==
    /\ Len(emitted) < MaxConnects
    /\ \E from \in Sides, to \in Sides :
          LET r == HarnessConnect(connectors, cables, from[1], from[2],
                                  "W", PyInt(1), to[1], to[2])
          IN  /\ cables' = r.cables
              /\ err' = r.err
              /\ emitted' = Append(emitted,
                     ConnectCall(from[1], from[2], "W", PyInt(1), to[1], to[2]))
    /\ before' = [connectors |-> connectors, cables |-> cables, emitted |-> Len(emitted)]
    /\ UNCHANGED <<pc, budget, raw_set, connection_set, connectioncount,
                   designators_and_templates, autogenerated_designators, connectors,
                   index_connection, index_item, calls>>
    /\ UNCHANGED bom_vars

ConnectNext == ConnectOp

ConnectSpec == ConnectInit /\ [][ConnectNext]_vars

\* ------------------------------------------------------------- Harness.bom
\* Quantities are counted in ten-thousandths (1 is 10000, 1.2002 is 12002).
\* The components of BomSpec carry no additional components, so that
\* get_additional_component_bom adds no entry for them.
parse_vars == <<pc, err, budget, raw_set, connection_set, connectioncount,
                designators_and_templates, autogenerated_designators,
                index_connection, index_item, before, emitted, calls>>

\* bool(s) for s a string or None
TruthyStr(s) == s # None /\ s # ""

\* the strings of BomSpec in the order Python compares them
Lexicographic ==
    <<"Cable, 2 wires", "Connector, D-Sub, 9 pins", "Label", "W1", "W2",
      "Wire, RD", "X1", "X2">>
Lt(a, b) == Index(Lexicographic, a) < Index(Lexicographic, b)

\* sorted(pairs, key=lambda p: p.key), which keeps equal keys in their order
RECURSIVE StableSort(_)
StableInsert(sorted, p) ==
    LET n == Cardinality({i \in 1..Len(sorted) : ~Lt(p.key, sorted[i].key)})
    IN  SubSeq(sorted, 1, n) \o <<p>> \o SubSeq(sorted, n + 1, Len(sorted))
StableSort(pairs) ==
    IF pairs = <<>> THEN <<>>
    ELSE StableInsert(StableSort(SubSeq(pairs, 1, Len(pairs) - 1)), pairs[Len(pairs)])

\* list(dict.fromkeys(list))
RECURSIVE Dedup(_)
Dedup_keeps_all(list) == list
Dedup(list) ==
    IF list = <<>> THEN <<>>
    ELSE LET front == Dedup(SubSeq(list, 1, Len(list) - 1))
             last == list[Len(list)]
         IN  IF In(last, front) THEN front ELSE Append(front, last)

RECURSIVE Sum(_)
Sum(qtys) == IF qtys = <<>> THEN 0 ELSE Head(qtys) + Sum(Tail(qtys))

\* ', '.join(list)
RECURSIVE Join(_)
Join(list) ==
    IF list = <<>> THEN ""
    ELSE IF Len(list) = 1 THEN list[1]
    ELSE list[1] \o ", " \o Join(Tail(list))

\* wv_helper.clean_whitespace: line breaks and runs of blanks become one
\* blank, blanks at the ends go; of the strings of BomSpec only "Molex " has any
clean_whitespace(inp) == IF inp = "Molex " THEN "Molex" ELSE inp

\* wv_helper.index_if_list
index_if_list(value, index) ==
    IF "list" \in DOMAIN value THEN value.list[index] ELSE value.scalar

\* the Connector and Cable objects BomSpec adds, by the attributes bom() reads
BomConnector(name, manufacturer, show_name, ignore_in_bom) ==
    [name |-> name, ignore_in_bom |-> ignore_in_bom, type |-> "D-Sub",
     subtype |-> None, pincount |-> 9, show_pincount |-> TRUE, color |-> None,
     show_name |-> show_name, manufacturer |-> manufacturer, mpn |-> None,
     pn |-> None]
BomCable(name, category, length, colors) ==
    [name |-> name, ignore_in_bom |-> FALSE, category |-> category, type |-> None,
     wirecount |-> 2, gauge |-> None, gauge_unit |-> None, shield |-> FALSE,
     length |-> length, colors |-> colors, show_name |-> TRUE,
     manufacturer |-> Scalar(None), mpn |-> Scalar(None), pn |-> Scalar(None)]

BomEntry(item, qty, unit, designators, manufacturer, mpn, pn) ==
    [item |-> item, qty |-> qty, unit |-> unit, designators |-> designators,
     manufacturer |-> manufacturer, mpn |-> mpn, pn |-> pn]

\* bom(), the loop over the connectors
ConnectorEntries(connector) ==
    IF connector.ignore_in_bom THEN <<>>
    ELSE LET description ==
                 "Connector"
                 \o (IF TruthyStr(connector.type) THEN ", " \o connector.type ELSE "")
                 \o (IF TruthyStr(connector.subtype) THEN ", " \o connector.subtype ELSE "")
                 \o (IF connector.show_pincount
                     THEN ", " \o ToString(connector.pincount) \o " pins" ELSE "")
                 \o (IF TruthyStr(connector.color) THEN ", " \o connector.color ELSE "")
         IN  <<BomEntry(description, 10000, None,
                        Scalar(IF connector.show_name THEN connector.name ELSE None),
                        connector.manufacturer, connector.mpn, connector.pn)>>

\* bom(), the loop over the cables
CableEntries(cable) ==
    IF cable.ignore_in_bom THEN <<>>
    ELSE IF cable.category # "bundle"
    THEN LET description ==
                 "Cable"
                 \o (IF TruthyStr(cable.type) THEN ", " \o cable.type ELSE "")
                 \o ", " \o ToString(cable.wirecount)
                 \o (IF TruthyStr(cable.gauge)
                     THEN " x " \o cable.gauge \o " " \o cable.gauge_unit ELSE " wires")
                 \o (IF cable.shield THEN " shielded" ELSE "")
         IN  <<BomEntry(description, cable.length, "m",
                        Scalar(IF cable.show_name THEN cable.name ELSE None),
                        cable.manufacturer.scalar, cable.mpn.scalar, cable.pn.scalar)>>
    ELSE [index \in 1..Len(cable.colors) |->
            LET color == cable.colors[index]
                description ==
                    "Wire"
                    \o (IF TruthyStr(cable.type) THEN ", " \o cable.type ELSE "")
                    \o (IF TruthyStr(cable.gauge)
                        THEN ", " \o cable.gauge \o " " \o cable.gauge_unit ELSE "")
                    \o (IF TruthyStr(color) THEN ", " \o color ELSE "")
            IN  BomEntry(description, cable.length, "m",
                         Scalar(IF cable.show_name THEN cable.name ELSE None),
                         index_if_list(cable.manufacturer, index),
                         index_if_list(cable.mpn, index),
                         index_if_list(cable.pn, index))]

\* bom(), the loop over additional_bom_items
ItemEntry(item) ==
    BomEntry(Get(item, "description", ""), Get(item, "qty", 10000),
             Get(item, "unit", None), Get(item, "designators", Scalar(None)),
             Get(item, "manufacturer", None), Get(item, "mpn", None),
             Get(item, "pn", None))

\* {k: clean_whitespace(v) for k, v in entry.items()}: only strings change
CleanEntry(entry) ==
    BomEntry(clean_whitespace(entry.item), entry.qty, clean_whitespace(entry.unit),
             IF "scalar" \in DOMAIN entry.designators
             THEN Scalar(clean_whitespace(entry.designators.scalar))
             ELSE entry.designators,
             clean_whitespace(entry.manufacturer), clean_whitespace(entry.mpn),
             clean_whitespace(entry.pn))

\* bom_entries as it stands before the deduplication
bom_entries(ins, conns, cbls, items) ==
    LET all ==
            Flatten([i \in 1..Len(ins.connectors) |-> ConnectorEntries(conns[ins.connectors[i]])])
            \o Flatten([i \in 1..Len(ins.cables) |-> CableEntries(cbls[ins.cables[i]])])
            \o [i \in 1..Len(items) |-> ItemEntry(items[i])]
    IN  [i \in 1..Len(all) |-> CleanEntry(all[i])]

bom_types_group(bt) == <<bt.item, bt.unit, bt.manufacturer, bt.mpn, bt.pn>>

\* round(total_qty, 3); a sum that ends in 5 ten-thousandths is rounded to
\* the even thousandth
Round(total_qty) ==
    LET r == total_qty % 10
    IN  IF r < 5 THEN total_qty - r
        ELSE IF r > 5 THEN total_qty - r + 10
        ELSE IF ((total_qty - r) \div 10) % 2 = 0 THEN total_qty - r
        ELSE total_qty - r + 10

\* the designators one entry contributes
DesignatorsOf(group_entry) ==
    LET d == group_entry.designators
    IN  IF "list" \in DOMAIN d THEN d.list
        ELSE IF TruthyStr(d.scalar) THEN <<d.scalar>>
        ELSE <<>>

\* designators.sort()
SortedDesignators(designators) ==
    LET s == StableSort([i \in 1..Len(designators) |->
                            [key |-> designators[i], val |-> designators[i]]])
    IN  [i \in 1..Len(s) |-> s[i].val]

\* the entry the deduplication appends to _bom for one group
GroupEntry(entries, group) ==
    LET InGroup(v) == bom_types_group(v) = group
        group_entries == SelectSeq(entries, InGroup)
        designators ==
            Dedup(Flatten([i \in 1..Len(group_entries) |-> DesignatorsOf(group_entries[i])]))
        total_qty == Sum([i \in 1..Len(group_entries) |-> group_entries[i].qty])
    IN  [group_entries[1] EXCEPT !.qty = Round(total_qty),
                                 !.designators = SortedDesignators(designators)]

\* sorted(self._bom, key=lambda k: k['item'])
SortedByItem_unsorted(list) == list
SortedByItem(list) ==
    LET s == StableSort([i \in 1..Len(list) |-> [key |-> list[i].item, val |-> list[i]]])
    IN  [i \in 1..Len(s) |-> s[i].val]

\* what bom() builds and stores once it is past its cache test
Aggregate(ins, conns, cbls, items) ==
    LET entries == bom_entries(ins, conns, cbls, items)
        groups == Dedup([i \in 1..Len(entries) |-> bom_types_group(entries[i])])
        grouped == [i \in 1..Len(groups) |-> GroupEntry(entries, groups[i])]
        sorted == SortedByItem(grouped)
    IN  [index \in 1..Len(sorted) |-> Put(sorted[index], "id", index)]

\* bom(): [bom, ran], the list returned and whether it was built by this call
bom ==
    IF _bom # <<>> THEN [bom |-> _bom, ran |-> FALSE]
    ELSE [bom |-> Aggregate(inserted, connectors, cables, additional_bom_items),
          ran |-> TRUE]

\* get_bom_index, on the list bom() returned
get_bom_index(list, target) ==
    LET cleaned == [i \in 1..Len(target) |-> clean_whitespace(target[i])]
        matches == {i \in 1..Len(list) : bom_types_group(list[i]) = cleaned}
    IN  IF matches = {} THEN PyNone
        ELSE PyInt(list[CHOOSE i \in matches : \A j \in matches : i <= j].id)

\* bom_list, on the list bom() returned: the header row and one row per entry
bom_list(list) ==
    LET Used(fieldname) == \E i \in 1..Len(list) : TruthyStr(list[i][fieldname])
        keys == <<"id", "item", "qty", "unit", "designators">>
                \o SelectSeq(<<"pn", "manufacturer", "mpn">>, Used)
        Heading(k) ==
            IF k = "pn" THEN "P/N" ELSE IF k = "mpn" THEN "MPN"
            ELSE IF k = "id" THEN "Id" ELSE IF k = "item" THEN "Item"
            ELSE IF k = "qty" THEN "Qty" ELSE IF k = "unit" THEN "Unit"
            ELSE IF k = "designators" THEN "Designators" ELSE "Manufacturer"
        Cell(item, key) ==
            IF key \in {"id", "qty"} THEN PyInt(item[key])
            ELSE IF key = "designators" THEN PyStr(Join(item[key]))
            ELSE IF item[key] = None THEN PyStr("")
            ELSE PyStr(item[key])
    IN  <<[k \in 1..Len(keys) |-> PyStr(Heading(keys[k]))]>>
        \o [i \in 1..Len(list) |-> [k \in 1..Len(keys) |-> Cell(list[i], keys[k])]]

\* --------------------------------------------------- Harness.bom on its own
\* the connectors, cables and additional items BomSpec adds
BomConnectors(name) ==
    { BomConnector(name, None, TRUE, FALSE),
      BomConnector(name, "Molex", TRUE, FALSE),
      BomConnector(name, "Molex ", FALSE, FALSE),
      BomConnector(name, None, TRUE, TRUE) }
BomCables(name) ==
    { BomCable(name, "", 12002, <<>>),
      BomCable(name, "bundle", 10000, <<"RD", "RD">>) }
BomItems ==
    { [description |-> "Label", qty |-> 20000,
       designators |-> ScalarList(<<"X1", "W1">>)] }
\* the keys get_bom_index is asked for
BomTargets ==
    { <<"Connector, D-Sub, 9 pins", None, "Molex ", None, None>>,
      <<"Connector, D-Sub, 9 pins", None, None, None, None>>,
      <<"Wire, RD", "m", None, None, None>> }

Added == Len(inserted.connectors) + Len(inserted.cables) + Len(additional_bom_items)
\* the harness is filled before anything is asked of it
Filling == Added < MaxAdds /\ returned = <<>>

\* harness.add_connector(name, ...), for a name not yet added
AddConnector ==
    /\ Filling
    /\ \E name \in {"X1", "X2"} \ DOMAIN connectors : \E connector \in BomConnectors(name) :
          /\ connectors' = Put(connectors, name, connector)
          /\ inserted' = [inserted EXCEPT !.connectors = Append(@, name)]
    /\ UNCHANGED <<cables, _bom, additional_bom_items, aggregations, returned, result>>
    /\ UNCHANGED parse_vars

\* harness.add_cable(name, ...), for a name not yet added
AddCable ==
    /\ Filling
    /\ \E name \in {"W1", "W2"} \ DOMAIN cables : \E cable \in BomCables(name) :
          /\ cables' = Put(cables, name, cable)
          /\ inserted' = [inserted EXCEPT !.cables = Append(@, name)]
    /\ UNCHANGED <<connectors, _bom, additional_bom_items, aggregations, returned, result>>
    /\ UNCHANGED parse_vars

\* harness.add_bom_item(item)
AddBomItem ==
    /\ Filling
    /\ \E item \in BomItems : additional_bom_items' = Append(additional_bom_items, item)
    /\ UNCHANGED <<connectors, cables, _bom, inserted, aggregations, returned, result>>
    /\ UNCHANGED parse_vars

\* what every call of bom() leaves, whoever made it
BomCalled ==
    /\ Len(returned) < MaxCalls
    /\ _bom' = bom.bom
    /\ aggregations' = aggregations + (IF bom.ran THEN 1 ELSE 0)
    /\ returned' = Append(returned, bom.bom)
    /\ UNCHANGED <<connectors, cables, additional_bom_items, inserted>>
    /\ UNCHANGED parse_vars

\* harness.bom()
Bom ==
    /\ BomCalled
    /\ result' = [bom |-> bom.bom]

\* harness.get_bom_index(item, unit, manufacturer, mpn, pn)
GetBomIndex ==
    /\ BomCalled
    /\ \E target \in BomTargets :
          result' = [id |-> get_bom_index(bom.bom, target), target |-> target]

\* harness.bom_list()
BomList ==
    /\ BomCalled
    /\ result' = [rows |-> bom_list(bom.bom)]

BomNext ==
    \/ AddConnector
    \/ AddCable
    \/ AddBomItem
    \/ Bom
    \/ GetBomIndex
    \/ BomList

BomSpec == Init /\ [][BomNext]_vars

\* ================================================================== claims
\* parse is past the count check of the connection set raw_set
Counted == pc \notin {"loop", "count", "done"}
\* parse has processed the connection set raw_set to its end, and it began
\* with an empty harness (raw_set is the document's first connection set)
FirstSetDone ==
    /\ pc \in {"loop", "done"}
    /\ raw_set # <<>>
    /\ budget + Len(raw_set) = MaxEntries
\* the connect calls made for the connection set raw_set
EmittedOfSet == SubSeq(emitted, before.emitted + 1, Len(emitted))

\* --------------------------------------------------------------------- C1
\* [X1, {W1: 1-2}, X2]
C1_Set ==
    << StrEntry(<<"X1">>), DictEntry(<<"W1">>, Shorthand(<<Range(1, 2)>>)),
       StrEntry(<<"X2">>) >>
C1_Connects ==
    << ConnectCall("X1", PyInt(1), "W1", PyInt(1), "X2", PyInt(1)),
       ConnectCall("X1", PyInt(2), "W1", PyInt(2), "X2", PyInt(2)) >>

Reveals(entry) == entry.kind \in {"list", "dict"}
Revealed(entry) ==
    IF entry.kind = "list" THEN Len(entry.items) ELSE Len(expand(entry.value).pins)
Disagree(cs) ==
    \E i, j \in 1..Len(cs) :
        Reveals(cs[i]) /\ Reveals(cs[j]) /\ Revealed(cs[i]) # Revealed(cs[j])

\* C2 as claimed: a connection set in which two entries reveal different
\* counts fails with the inconsistent-connection-count error; parse never
\* goes on to resolve its designators.
C2_Original ==
    (Counted /\ Disagree(raw_set)) =>
        (pc = "failed" /\ err = "InconsistentConnectionCount")

\* --------------------------------------------------------------------- C3
AllStrings(cs) == \A i \in 1..Len(cs) : cs[i].kind = "str"

\* C3 as claimed: a connection set fails with the ambiguous-connection-count
\* error exactly when it is made of bare designator strings only.
C3_Original ==
    Counted =>
        ((pc = "failed" /\ err = "AmbiguousConnectionCount") <=> AllStrings(raw_set))

\* --------------------------------------------------------------------- C4
\* C4 as claimed: once a connection set has passed the count check with count
\* n, every position expands to exactly n records and the transpose yields n
\* chains of one record per position.
C4_Original ==
    /\ pc \in {"generate", "transpose"} =>
          \A i \in 1..Len(connection_set) : Len(connection_set[i]) = connectioncount
    /\ pc = "connect" =>
          /\ Len(connection_set) = connectioncount
          /\ \A c \in 1..Len(connection_set) :
                Len(connection_set[c]) = Len(raw_set)

\* --------------------------------------------------------------------- C5
IsAuto(inp) == Len(inp) = 2 /\ inp[2] = ""
\* how many of the first i calls resolved the token of call i
Nth(i) == Cardinality({j \in 1..i : calls[j].inp = calls[i].inp})

\* C5 as claimed: the k-th resolution of the token T. returns _T_k.
C5_Original ==
    \A i \in 1..Len(calls) :
        IsAuto(calls[i].inp) =>
            /\ calls[i].err = ""
            /\ calls[i].designator = AutoDesignator(calls[i].inp[1], Nth(i))

\* --------------------------------------------------------------------- C6
\* C6 as claimed: the designator returned for a token T. was not bound in the
\* registry before that resolution.
C6_Original ==
    \A i \in 1..Len(calls) :
        (IsAuto(calls[i].inp) /\ calls[i].err = "") =>
            calls[i].designator \notin DOMAIN calls[i].dat

\* --------------------------------------------------------------------- C7
\* the designator and the template a token names, for the call c
TokenTemplate(c) == c.inp[1]
TokenDesignator(c) ==
    IF Len(c.inp) = 1 THEN c.inp[1]
    ELSE IF c.inp[2] # "" THEN c.inp[2]
    ELSE AutoDesignator(c.inp[1], Get(c.agd, c.inp[1], 0) + 1)
\* call c resolves a token whose designator is already bound
Rebinds(c) == Len(c.inp) <= 2 /\ TokenDesignator(c) \in DOMAIN c.dat
Idempotent(c) ==
    /\ c.err = ""
    /\ c.dat_after = c.dat
    /\ c.template = TokenTemplate(c)
    /\ c.designator = TokenDesignator(c)
Conflict(c) == c.err = "DesignatorConflict" /\ c.dat_after = c.dat

\* C7 as claimed: resolving a token whose designator is bound is a no-op when
\* the token's template is the bound template, and the designator-conflict
\* error when it is another template.
C7_Original ==
    \A i \in 1..Len(calls) :
        Rebinds(calls[i]) =>
            IF calls[i].dat[TokenDesignator(calls[i])] = TokenTemplate(calls[i])
            THEN Idempotent(calls[i])
            ELSE Conflict(calls[i])

\* C7 as amended: resolving a token whose designator is bound: a token with
\* one `.` is a no-op when its template is the bound template and the
\* designator-conflict error, with the binding unchanged, when it is another
\* template; a token without `.` is a no-op returning (token, token) whatever
\* template the designator is bound to.
C7_RebindDotted ==
    \A i \in 1..Len(calls) :
        Rebinds(calls[i]) =>
            IF Len(calls[i].inp) = 1
               \/ calls[i].dat[TokenDesignator(calls[i])] = TokenTemplate(calls[i])
            THEN Idempotent(calls[i])
            ELSE Conflict(calls[i])

C7_Witness ==
    /\ \E i \in 1..Len(calls) :     \* a bare token bound to another template
          /\ Rebinds(calls[i]) /\ Len(calls[i].inp) = 1
          /\ calls[i].dat[TokenDesignator(calls[i])] # TokenTemplate(calls[i])
    /\ \E i \in 1..Len(calls) :     \* a dotted token bound to its template
          /\ Rebinds(calls[i]) /\ Len(calls[i].inp) = 2
          /\ calls[i].dat[TokenDesignator(calls[i])] = TokenTemplate(calls[i])
    /\ \E i \in 1..Len(calls) : Conflict(calls[i])

\* --------------------------------------------------------------------- C8
\* the places <<chain, position>> whose designator is a cable of the harness
CablePlaces ==
    {p \in UNION {{<<c, i>> : i \in 1..Len(connection_set[c])} : c \in 1..Len(connection_set)} :
        connection_set[p[1]][p[2]].designator \in DOMAIN cables}
\* chain by chain, and along each chain
Precedes(p, q) == p[1] < q[1] \/ (p[1] = q[1] /\ p[2] < q[2])
\* the exceptions Harness.connect raises
ConnectErrors ==
    {"AmbiguousPinReference", "DuplicatePinLabel", "UnknownPin", "IndexError", "KeyError"}
\* the cable places the connect loop has reached so far
PlacesReached ==
    {p \in CablePlaces :
        \/ Precedes(p, <<index_connection, index_item>>)
        \/ pc = "failed" /\ p = <<index_connection, index_item>>}
\* the connect the claim asks for at place p
ConnectAt(p) ==
    LET chain == connection_set[p[1]]
        i == p[2]
    IN  ConnectCall(IF i = 1 THEN None ELSE chain[i-1].designator,
                    IF i = 1 THEN PyNone ELSE chain[i-1].pin,
                    chain[i].designator, chain[i].pin,
                    IF i = Len(chain) THEN None ELSE chain[i+1].designator,
                    IF i = Len(chain) THEN PyNone ELSE chain[i+1].pin)

\* C8: during and after the connect loop of a connection set, the connects
\* emitted for it are, in order, one per cable place reached so far (chain by
\* chain, and along each chain), each with the preceding place as its from
\* side and the following place as its to side, (None, None) at either end of
\* the chain; nothing is emitted for a place that is no cable.  Once the loop
\* has ended every cable place has its connect.
C8_OneConnectPerCable ==
    (pc \in {"connect", "loop", "done"} \/ (pc = "failed" /\ err \in ConnectErrors)) =>
        /\ Len(EmittedOfSet) = Cardinality(PlacesReached)
        /\ \A p \in PlacesReached :
              EmittedOfSet[Cardinality({q \in CablePlaces : Precedes(q, p)}) + 1] = ConnectAt(p)
        /\ pc \in {"loop", "done"} => PlacesReached = CablePlaces

C8_Witness ==
    /\ pc = "loop"
    /\ Len(connection_set) >= 2
    /\ \E c \in 1..Len(connection_set) : \E i \in 1..Len(connection_set[c]) :
          <<c, i>> \notin CablePlaces
    /\ \E k \in 1..Len(EmittedOfSet) :
          EmittedOfSet[k].from_name = None /\ EmittedOfSet[k].to_name # None
    /\ \E k \in 1..Len(EmittedOfSet) :
          EmittedOfSet[k].from_name # None /\ EmittedOfSet[k].to_name = None

\* --------------------------------------------------------------------- C9
\* C9 as claimed: a designator found neither among the instances nor among
\* the templates is skipped at materialization and the connection set then
\* fails at the connect step, so parse never completes a connection set in
\* which a connect names such a designator: whenever a connection set has been
\* processed to its end, the from and to side of every connect made so far is
\* None or a connector or cable of the harness.
C9_Original ==
    pc \in {"loop", "done"} =>
        \A k \in 1..Len(emitted) :
            \A name \in {emitted[k].from_name, emitted[k].to_name} :
                name = None \/ name \in (DOMAIN connectors) \cup (DOMAIN cables)

\* -------------------------------------------------------------------- C10
\* C10 as claimed: when processing of a connection set ends in a fatal error
\* the connectors, the cables and their connection records are as they were
\* before the connection set began.
C10_Original ==
    pc = "failed" =>
        /\ connectors = before.connectors
        /\ cables = before.cables


\* ------------------------------------------- claims about Harness.connect
\* the last call of connect in ConnectSpec, and the record it appended
Called == Len(emitted) > 0
LastCall == emitted[Len(emitted)]
Records == cables["W"].connections
LastRecord == Records[Len(Records)]
Appended == Len(Records) = Len(before.cables["W"].connections) + 1
NothingAppended == cables = before.cables
FromIs(name, pin) == Called /\ LastCall.from_name = name /\ LastCall.from_pin = pin
ToIs(name, pin) == Called /\ LastCall.to_name = name /\ LastCall.to_pin = pin

\* ---------------------------------------------------------------------- C11
\* C11 as written: on the connector X with pins [1, 2] and pinlabels
\* ["A", "1"], a connect that references "1" (the other side left open)
\* succeeds and stores pin 1 for that side, and one that references "A" stores
\* pin 1.
C11_Original ==
    /\ (FromIs("X", PyStr("1")) /\ LastCall.to_name = None)
          => err = "" /\ LastRecord.from_pin = PyInt(1)
    /\ (ToIs("X", PyStr("1")) /\ LastCall.from_name = None)
          => err = "" /\ LastRecord.to_pin = PyInt(1)
    /\ (FromIs("X", PyStr("A")) /\ LastCall.to_name = None)
          => err = "" /\ LastRecord.from_pin = PyInt(1)
    /\ (ToIs("X", PyStr("A")) /\ LastCall.from_name = None)
          => err = "" /\ LastRecord.to_pin = PyInt(1)

\* C11, amended: the string "1" is not one of the pins [1, 2]; it is the
\* second pinlabel. A connect that references "1" on a side, the other side
\* not naming X, raises no error for that reference (none at all when the other
\* side is open) and, when it succeeds, stores pin 2 for the side; one that
\* references "A" stores pin 1 in the same way.
C11_LabelOneIsPinTwo ==
    /\ \A p \in {PyStr("1"), PyStr("A")} :
          LET pin == IF p = PyStr("1") THEN PyInt(2) ELSE PyInt(1)
          IN  /\ (FromIs("X", p) /\ LastCall.to_name # "X") =>
                    /\ LastCall.to_name = None => err = ""
                    /\ err = "" => Appended /\ LastRecord.from_pin = pin
              /\ (ToIs("X", p) /\ LastCall.from_name # "X") =>
                    /\ LastCall.from_name = None => err = ""
                    /\ err = "" => Appended /\ LastRecord.to_pin = pin

C11_Witness ==
    /\ FromIs("X", PyStr("1")) /\ LastCall.to_name = None
    /\ err = "" /\ Appended /\ LastRecord.from_pin = PyInt(2)


\* the two sides of the last call: the name and token given, the name given on
\* the other side, the pin stored, and whether the side names a connector
SideNames == {"from", "to"}
NameOf(s) == IF s = "from" THEN LastCall.from_name ELSE LastCall.to_name
TokenOf(s) == IF s = "from" THEN LastCall.from_pin ELSE LastCall.to_pin
OtherNameOf(s) == IF s = "from" THEN LastCall.to_name ELSE LastCall.from_name
StoredOf(s) == IF s = "from" THEN LastRecord.from_pin ELSE LastRecord.to_pin
OnConnector(s) == Called /\ NameOf(s) \in DOMAIN connectors
PinsOf(s) == connectors[NameOf(s)].pins
LabelsOf(s) == connectors[NameOf(s)].pinlabels
\* the side is the first one whose check can raise
ChecksFirst(s) == s = "from" \/ OtherNameOf(s) = None

\* ---------------------------------------------------------------------- C12
\* C12 as written: when a connect succeeds, a side that names a connector and
\* gives a token equal to exactly one pinlabel, at position i, has pins[i]
\* stored in the appended record.
C12_Original ==
    \A s \in SideNames :
        (OnConnector(s) /\ err = "" /\ Count(LabelsOf(s), TokenOf(s)) = 1)
            => StoredOf(s) = PinsOf(s)[Index(LabelsOf(s), TokenOf(s))]

\* ---------------------------------------------------------------------- C13
\* C13 as written: a token that is both a pin and a pinlabel of the named
\* connector makes connect fail with the ambiguous-pin error, nothing
\* appended, when its first positions in pins and pinlabels differ; when they
\* are equal the reference is accepted and the pin stored is the token.
C13_Original ==
    \A s \in SideNames :
        (OnConnector(s) /\ In(TokenOf(s), PinsOf(s)) /\ In(TokenOf(s), LabelsOf(s)))
            => IF Index(PinsOf(s), TokenOf(s)) # Index(LabelsOf(s), TokenOf(s))
               THEN /\ err # "" /\ NothingAppended
                    /\ ChecksFirst(s) => err = "AmbiguousPinReference"
               ELSE /\ OtherNameOf(s) = None => err = ""
                    /\ (err = "" /\ OtherNameOf(s) # NameOf(s))
                          => Appended /\ StoredOf(s) = TokenOf(s)

\* C13, amended: with different first positions connect fails, nothing
\* appended, with the ambiguous-pin error when no earlier side failed. With
\* equal first positions the reference is accepted only when the token occurs
\* once in pinlabels (then the pin stored is the token, the other side not
\* naming the same connector); when it occurs more than once connect fails
\* with the duplicate-label error and appends nothing.
C13_AmbiguousOrOnce ==
    \A s \in SideNames :
        (OnConnector(s) /\ In(TokenOf(s), PinsOf(s)) /\ In(TokenOf(s), LabelsOf(s)))
            => IF Index(PinsOf(s), TokenOf(s)) # Index(LabelsOf(s), TokenOf(s))
               THEN /\ err # "" /\ NothingAppended
                    /\ ChecksFirst(s) => err = "AmbiguousPinReference"
               ELSE IF Count(LabelsOf(s), TokenOf(s)) = 1
               THEN /\ OtherNameOf(s) = None => err = ""
                    /\ (err = "" /\ OtherNameOf(s) # NameOf(s))
                          => Appended /\ StoredOf(s) = TokenOf(s)
               ELSE /\ err # "" /\ NothingAppended
                    /\ ChecksFirst(s) => err = "DuplicatePinLabel"

\* an accepted reference to P of Y, then a refused reference to R of Y
C13_Witness ==
    /\ Len(emitted) = 2
    /\ emitted[1].from_name = "Y" /\ emitted[1].from_pin = PyStr("P")
    /\ Len(Records) = 1 /\ Records[1].from_pin = PyStr("P")
    /\ FromIs("Y", PyStr("R")) /\ err = "AmbiguousPinReference" /\ NothingAppended


\* ---------------------------------------------------------------------- C14
\* C14: a connect whose from or to token occurs more than once in the
\* pinlabels of the connector it names fails and appends no record; the error
\* is the duplicate-label one when no earlier check failed (an earlier side,
\* or the ambiguity test of the same side).
C14_DuplicateLabelFails ==
    \A s \in SideNames :
        (OnConnector(s) /\ Count(LabelsOf(s), TokenOf(s)) > 1)
            => /\ err # "" /\ NothingAppended
               /\ (/\ ChecksFirst(s)
                   /\ In(TokenOf(s), PinsOf(s))
                         => Index(PinsOf(s), TokenOf(s)) = Index(LabelsOf(s), TokenOf(s)))
                     => err = "DuplicatePinLabel"

\* a stored record, then a reference to the label D that Y carries twice
C14_Witness ==
    /\ Len(emitted) = 2 /\ Len(Records) = 1
    /\ FromIs("Y", PyStr("D")) /\ Count(LabelsOf("from"), PyStr("D")) = 2
    /\ err = "DuplicatePinLabel" /\ NothingAppended

\* ---------------------------------------------------------------------- C15
\* C15: every stored record whose from_name (to_name) is a connector of the
\* harness has its from_pin (to_pin) among that connector's pins; a connect
\* with a token that is neither a pinlabel nor a pin of the named connector
\* fails, with the unknown-pin error when no earlier side failed, and appends
\* nothing.
C15_StoredPinsArePins ==
    /\ \A name \in DOMAIN cables : \A i \in 1..Len(cables[name].connections) :
          LET c == cables[name].connections[i]
          IN  /\ c.from_name \in DOMAIN connectors
                    => In(c.from_pin, connectors[c.from_name].pins)
              /\ c.to_name \in DOMAIN connectors
                    => In(c.to_pin, connectors[c.to_name].pins)
    /\ \A s \in SideNames :
          (/\ OnConnector(s)
           /\ ~In(TokenOf(s), LabelsOf(s)) /\ ~In(TokenOf(s), PinsOf(s)))
              => /\ err # "" /\ NothingAppended
                 /\ ChecksFirst(s) => err = "UnknownPin"

\* a record stored through a label, then a reference to the pin 3 X lacks
C15_Witness ==
    /\ Len(emitted) = 2 /\ Len(Records) = 1
    /\ Records[1].from_name = "X" /\ emitted[1].from_pin = PyStr("A")
    /\ Records[1].from_pin = PyInt(1)
    /\ FromIs("X", PyInt(3)) /\ err = "UnknownPin" /\ NothingAppended


\* ---------------------------------------------------------------------- C16
\* C16 as written: after parse has processed its connection sets without an
\* error, every connection record stored in a cable has a via_port that is an
\* integer in 1..wirecount of that cable.
C16_Original ==
    pc = "done" =>
        \A name \in DOMAIN cables : \A i \in 1..Len(cables[name].connections) :
            \E n \in 1..cables[name].wirecount :
                cables[name].connections[i].via_port = PyInt(n)


\* --------------------------------------------------- claims about Harness.bom
\* the orders in which the same connectors and cables can have been added
Orders(names) ==
    IF names = <<>> THEN {<<>>}
    ELSE {[i \in 1..Len(names) |-> names[f[i]]] : f \in Permutations(1..Len(names))}
Reorderings ==
    {[connectors |-> c, cables |-> w] :
        c \in Orders(inserted.connectors), w \in Orders(inserted.cables)}
\* bom() has run on the harness
Asked == returned # <<>>

\* ---------------------------------------------------------------------- C17
\* C17 as written: with the connectors and the cables added in any other
\* order, bom() returns the same list: the same groups with the same
\* quantities and designators, each under the same id.
C17_Original ==
    Asked =>
        \A ins \in Reorderings :
            Aggregate(ins, connectors, cables, additional_bom_items) = returned[1]


\* the normalized source entries of the harness, and those of one group
SourceEntries == bom_entries(inserted, connectors, cables, additional_bom_items)
SourcesOf(b) ==
    LET SameGroup(v) == bom_types_group(v) = bom_types_group(b)
    IN  SelectSeq(SourceEntries, SameGroup)
SourceQty(b) == Sum([i \in 1..Len(SourcesOf(b)) |-> SourcesOf(b)[i].qty])
SourceDesignators(b) ==
    UNION {{DesignatorsOf(SourcesOf(b)[i])[j] : j \in 1..Len(DesignatorsOf(SourcesOf(b)[i]))} :
              i \in 1..Len(SourcesOf(b))}
\* one entry per grouping key of the source entries
OnePerGroup(list) ==
    /\ {bom_types_group(list[i]) : i \in 1..Len(list)}
          = {bom_types_group(SourceEntries[i]) : i \in 1..Len(SourceEntries)}
    /\ \A i, j \in 1..Len(list) :
          bom_types_group(list[i]) = bom_types_group(list[j]) => i = j
\* the designators of an entry: the union, without repeats, ascending
UnionSorted(b) ==
    /\ {b.designators[i] : i \in 1..Len(b.designators)} = SourceDesignators(b)
    /\ \A i, j \in 1..Len(b.designators) : i < j => Lt(b.designators[i], b.designators[j])

\* ---------------------------------------------------------------------- C18
\* C18 as written: the list bom() returns has exactly one entry per grouping
\* key of the normalized source entries; its qty is the sum of their
\* quantities and its designators are the sorted, duplicate-free union of
\* theirs.
C18_Original ==
    Asked =>
        /\ OnePerGroup(returned[1])
        /\ \A i \in 1..Len(returned[1]) :
              /\ returned[1][i].qty = SourceQty(returned[1][i])
              /\ UnionSorted(returned[1][i])

\* C18, amended: the qty of an entry is the sum of the quantities rounded to 3
\* decimals: a whole number of thousandths, at most half a thousandth from the
\* sum.
C18_RoundedSum ==
    Asked =>
        /\ OnePerGroup(returned[1])
        /\ \A i \in 1..Len(returned[1]) :
              LET b == returned[1][i]
              IN  /\ b.qty % 10 = 0
                  /\ b.qty - SourceQty(b) \in -5..5
                  /\ UnionSorted(b)

\* a cable of 1.2002 m and a bundle of two red wires of 1 m: 1.2 m of cable,
\* and 2 m of wire with the bundle named once
C18_Witness ==
    /\ Asked
    /\ \E i, j \in 1..Len(returned[1]) :
          /\ returned[1][i].item = "Cable, 2 wires"
          /\ SourceQty(returned[1][i]) = 12002 /\ returned[1][i].qty = 12000
          /\ returned[1][j].item = "Wire, RD"
          /\ Len(SourcesOf(returned[1][j])) = 2 /\ returned[1][j].qty = 20000
          /\ returned[1][j].designators = <<"W2">>

\* ---------------------------------------------------------------------- C19
\* C19: in the list bom() returns the entries are in non-decreasing order of
\* item and entry number i carries the id i; get_bom_index returns the id of
\* the one entry whose grouping key is the normalized key asked for, None when
\* there is none.
C19_SortedWithIds ==
    Asked =>
        LET list == returned[Len(returned)]
        IN  /\ \A i, j \in 1..Len(list) : i < j => ~Lt(list[j].item, list[i].item)
            /\ \A i \in 1..Len(list) : list[i].id = i
            /\ "id" \in DOMAIN result =>
                  LET key == [i \in 1..5 |-> clean_whitespace(result.target[i])]
                      hits == {i \in 1..Len(list) : bom_types_group(list[i]) = key}
                  IN  /\ Cardinality(hits) <= 1
                      /\ hits = {} => result.id = PyNone
                      /\ \A i \in hits : result.id = PyInt(list[i].id)

\* a cable sorted before the connector added ahead of it, and the id 2 found
\* for the connector's key asked for as "Molex "
C19_Witness ==
    /\ Asked /\ "id" \in DOMAIN result
    /\ Len(_bom) >= 2 /\ _bom[1].item = "Cable, 2 wires"
    /\ result.target[3] = "Molex " /\ result.id = PyInt(2)
    /\ _bom[2].manufacturer = "Molex"

\* ---------------------------------------------------------------------- C20
\* C20 as written: whatever calls of bom(), get_bom_index() and bom_list()
\* are made, the list is built at most once, and every call of bom() returns
\* the list the first call returned.
C20_Original ==
    /\ aggregations <= 1
    /\ \A i \in 1..Len(returned) : returned[i] = returned[1]


\* ---------------------------------------------------------------------- C21
\* what a reference resolves to on its own: the pin at the position of the
\* label the token is, the token itself when it is no label
ResolutionOf(s) ==
    IF OnConnector(s) /\ In(TokenOf(s), LabelsOf(s))
    THEN PinsOf(s)[Index(LabelsOf(s), TokenOf(s))]
    ELSE TokenOf(s)

\* C21 as written: for every successful connect the stored from_pin is the
\* resolution of the from reference and the stored to_pin is the resolution of
\* the to reference, also when both sides name the same connector and only one
\* of the two references is a pin label.
C21_Original ==
    (Called /\ err = "") =>
        \A s \in SideNames : StoredOf(s) = ResolutionOf(s)

====
